---- MODULE Spec2Model ----
(***************************************************************************)
(* Model of the Binance Futures testnet trading bot: the input validators  *)
(* (bot/validators.py), order placement (bot/orders.py), the signing HTTP  *)
(* client (bot/client.py) and the command line / interactive menu (cli.py).*)
(*                                                                         *)
(* Python values are modelled as follows.                                  *)
(*  - a str is a sequence of one-character strings;                        *)
(*  - a call's outcome is a record [kind, exc, msg, value]: kind "return"  *)
(*    carries value, kind "raise" carries the exception class and message; *)
(*  - a raw numeric argument is [t, v]: t = "num" (a float or a numeric    *)
(*    string of value v), "nan", "inf" (sign v), "text" (a string that is  *)
(*    not a number) or "None";                                             *)
(*  - a Decimal is [d, v]: d = "fin" (value v), "NaN" or "Inf" (sign v);   *)
(*  - a dict is a sequence of <<key, value>> pairs with distinct keys, in  *)
(*    insertion order.                                                     *)
(***************************************************************************)
EXTENDS Integers, Sequences, FiniteSets, TLC

VARIABLES
    env,        \* process environment: [key, secret], "" when not set
    pc,         \* position of the process
    flow,       \* command being run: "order", "price", "account" or "none"
    interactive,\* TRUE inside interactive_menu
    iter,       \* completed iterations of the menu loop
    choice,     \* last menu selection
    args,       \* raw arguments of the command run last
    loc,        \* locals of _execute_order: the validators' outputs so far
    nvalid,     \* validators of _execute_order that have returned
    client,     \* the BinanceClient of the running command, None before
    sessions,   \* requests.Session objects created by the process
    httpCount,  \* HTTP requests issued by the process
    lastTx,     \* the request the running command handed to the HTTP session
    report,     \* what the running command last printed
    uncaught,   \* exception that escaped to the top of the process
    call,       \* gateway harness: the _request call under test
    result      \* gateway harness: what that call did

vars == <<env, pc, flow, interactive, iter, choice, args, loc, nvalid,
          client, sessions, httpCount, lastTx, report, uncaught, call, result>>

-----------------------------------------------------------------------------
(* Bounds of the model *)

MaxIter == 2
MaxClock == 2

-----------------------------------------------------------------------------
(* Python values *)

None == [t |-> "None", v |-> 0]

Ret(v) == [kind |-> "return", exc |-> "", msg |-> "", value |-> v]

Raise(e, m) == [kind |-> "raise", exc |-> e, msg |-> m, value |-> None]

Lowercase == <<"a","b","c","d","e","f","g","h","i","j","k","l","m",
               "n","o","p","q","r","s","t","u","v","w","x","y","z">>

Uppercase == <<"A","B","C","D","E","F","G","H","I","J","K","L","M",
               "N","O","P","Q","R","S","T","U","V","W","X","Y","Z">>

Range(s) == {s[i] : i \in DOMAIN s}

UpperChar(c) ==
    IF \E i \in DOMAIN Lowercase : Lowercase[i] = c
    THEN Uppercase[CHOOSE i \in DOMAIN Lowercase : Lowercase[i] = c]
    ELSE c

StrUpper(s) == [i \in DOMAIN s |-> UpperChar(s[i])]

IsSpace(c) == c = " "

RECURSIVE LStrip(_)
LStrip(s) == IF s # <<>> /\ IsSpace(Head(s)) THEN LStrip(Tail(s)) ELSE s

RECURSIVE RStrip(_)
RStrip(s) ==
    IF s # <<>> /\ IsSpace(s[Len(s)]) THEN RStrip(SubSeq(s, 1, Len(s) - 1)) ELSE s

StrStrip(s) == RStrip(LStrip(s))

StrIsAlpha(s) ==
    /\ s # <<>>
    /\ \A i \in DOMAIN s : s[i] \in Range(Lowercase) \cup Range(Uppercase)

(* the string literals of the program and of the inputs *)
S_BUY == <<"B","U","Y">>
S_SELL == <<"S","E","L","L">>
S_MARKET == <<"M","A","R","K","E","T">>
S_LIMIT == <<"L","I","M","I","T">>
S_STOP == <<"S","T","O","P">>
S_STOP_MARKET == S_STOP \o <<"_">> \o S_MARKET
S_TAKE_PROFIT == <<"T","A","K","E","_","P","R","O","F","I","T">>
S_TAKE_PROFIT_MARKET == S_TAKE_PROFIT \o <<"_">> \o S_MARKET
S_GTC == <<"G","T","C">>

(* Decimal *)
Fin(n) == [d |-> "fin", v |-> n]
NaN == [d |-> "NaN", v |-> 0]
Inf(sign) == [d |-> "Inf", v |-> sign]

\* Decimal(str(x)): a number parses, "nan" and "inf" parse to the special
\* values, any other text raises InvalidOperation
DecimalOf(x) ==
    CASE x.t = "num" -> Ret(Fin(x.v))
      [] x.t = "nan" -> Ret(NaN)
      [] x.t = "inf" -> Ret(Inf(x.v))
      [] OTHER -> Raise("InvalidOperation", "ConversionSyntax")

\* d <= 0: an ordering comparison with NaN raises InvalidOperation
DecimalLeqZero(d) ==
    CASE d.d = "NaN" -> Raise("InvalidOperation", "comparison involving NaN")
      [] d.d = "Inf" -> Ret(d.v < 0)
      [] OTHER -> Ret(d.v <= 0)

\* the exception classes the program names, and their base classes
Bases(e) ==
    CASE e = "InvalidOperation" -> {"InvalidOperation", "ArithmeticError", "Exception"}
      [] e = "ValueError" -> {"ValueError", "Exception"}
      [] e = "JSONDecodeError" -> {"JSONDecodeError", "ValueError", "Exception"}
      [] e = "BinanceAPIError" -> {"BinanceAPIError", "Exception"}
      [] e = "ConnectionError" -> {"ConnectionError", "OSError", "Exception"}
      [] e = "TimeoutError" -> {"TimeoutError", "OSError", "Exception"}
      [] e = "requests.ConnectionError" ->
            {"requests.ConnectionError", "OSError", "Exception"}
      [] e = "requests.ConnectTimeout" ->
            {"requests.ConnectTimeout", "requests.ConnectionError",
             "requests.Timeout", "OSError", "Exception"}
      [] e = "requests.ReadTimeout" ->
            {"requests.ReadTimeout", "requests.Timeout", "OSError", "Exception"}
      [] OTHER -> {e, "Exception"}

IsInstance(e, classes) == Bases(e) \cap classes # {}

-----------------------------------------------------------------------------
(* bot/validators.py *)

VALID_SIDES == {S_BUY, S_SELL}

VALID_ORDER_TYPES ==
    {S_MARKET, S_LIMIT, S_STOP, S_STOP_MARKET, S_TAKE_PROFIT, S_TAKE_PROFIT_MARKET}

PRICE_REQUIRED_TYPES == {S_LIMIT, S_STOP, S_TAKE_PROFIT}

STOP_REQUIRED_TYPES ==
    {S_STOP, S_STOP_MARKET, S_TAKE_PROFIT, S_TAKE_PROFIT_MARKET}

MinSymbolLen == 5

validate_symbol(symbol) ==
    LET s == StrUpper(StrStrip(symbol)) IN
    IF s = <<>> \/ ~StrIsAlpha(s) THEN Raise("ValueError", "Invalid symbol")
    ELSE IF Len(s) < MinSymbolLen THEN Raise("ValueError", "Symbol looks too short")
    ELSE Ret(s)

validate_side(side) ==
    LET s == StrUpper(StrStrip(side)) IN
    IF s \notin VALID_SIDES THEN Raise("ValueError", "Invalid side") ELSE Ret(s)

validate_order_type(order_type) ==
    LET s == StrUpper(StrStrip(order_type)) IN
    IF s \notin VALID_ORDER_TYPES THEN Raise("ValueError", "Invalid order type")
    ELSE Ret(s)

\* the body shared by the three numeric validators: parse inside try/except
\* (InvalidOperation, ValueError), then compare outside it
PositiveDecimal(x, invalidMsg, rangeMsg) ==
    LET p == DecimalOf(x) IN
    IF p.kind = "raise"
    THEN IF IsInstance(p.exc, {"InvalidOperation", "ValueError"})
         THEN Raise("ValueError", invalidMsg)
         ELSE p
    ELSE LET c == DecimalLeqZero(p.value) IN
         IF c.kind = "raise" THEN c
         ELSE IF c.value THEN Raise("ValueError", rangeMsg)
         ELSE Ret(p.value)

validate_quantity(quantity) ==
    PositiveDecimal(quantity, "Invalid quantity", "Quantity must be > 0")

validate_price(price, order_type) ==
    IF price = None
    THEN IF order_type \in PRICE_REQUIRED_TYPES
         THEN Raise("ValueError", "Price is required")
         ELSE Ret(None)
    ELSE PositiveDecimal(price, "Invalid price", "Price must be > 0")

\* validate_stop_price with STOP_MARKET left out of the types that need one
validate_stop_price_narrow(stop_price, order_type) ==
    IF stop_price = None
    THEN IF order_type \in STOP_REQUIRED_TYPES \ {S_STOP_MARKET}
         THEN Raise("ValueError", "Stop price is required")
         ELSE Ret(None)
    ELSE PositiveDecimal(stop_price, "Invalid stop price", "Stop price must be > 0")

validate_stop_price(stop_price, order_type) ==
    IF stop_price = None
    THEN IF order_type \in STOP_REQUIRED_TYPES
         THEN Raise("ValueError", "Stop price is required")
         ELSE Ret(None)
    ELSE PositiveDecimal(stop_price, "Invalid stop price", "Stop price must be > 0")

-----------------------------------------------------------------------------
(* dict: insertion-ordered pairs; a value is [ty, s, n]: a str s or an int n *)

StrV(s) == [ty |-> "str", s |-> s, n |-> 0]

IntV(n) == [ty |-> "int", s |-> <<>>, n |-> n]

DictKeys(d) == {d[i][1] : i \in DOMAIN d}

DictHas(d, k) == k \in DictKeys(d)

DictGet(d, k, default) ==
    IF DictHas(d, k) THEN d[CHOOSE i \in DOMAIN d : d[i][1] = k][2] ELSE default

\* d[k] = v: an existing key keeps its position, a new key goes last
DictSet(d, k, v) ==
    IF DictHas(d, k)
    THEN [i \in DOMAIN d |-> IF d[i][1] = k THEN <<k, v>> ELSE d[i]]
    ELSE Append(d, <<k, v>>)

Digits == <<"0","1","2","3","4","5","6","7","8","9">>

RECURSIVE NatToStr(_)
NatToStr(n) ==
    IF n < 10 THEN <<Digits[n + 1]>>
    ELSE NatToStr(n \div 10) \o <<Digits[(n % 10) + 1]>>

\* str(n) of an int
IntToStr(n) == IF n < 0 THEN <<"-">> \o NatToStr(-n) ELSE NatToStr(n)

\* str(v) of a dict value
ValueStr(v) == IF v.ty = "int" THEN IntToStr(v.n) ELSE v.s

-----------------------------------------------------------------------------
(* bot/client.py *)

BASE_URL == <<"https://testnet.binancefuture.com">>

RecvWindow == 5000

RequestTimeout == 15

ErrorStatus == 400

\* BinanceClient.__init__ checking the key alone
BinanceClientInitKeyOnly(api_key, api_secret) ==
    LET key == IF api_key # "" THEN api_key ELSE env.key
        secret == IF api_secret # "" THEN api_secret ELSE env.secret
    IN  IF key = ""
        THEN Raise("ValueError", "API credentials are missing")
        ELSE Ret([api_key |-> key, api_secret |-> secret, base_url |-> BASE_URL])

\* BinanceClient.__init__: the outcome of construction, a client object or
\* ValueError; the session is created only after the credentials check
BinanceClientInit(api_key, api_secret) ==
    LET key == IF api_key # "" THEN api_key ELSE env.key
        secret == IF api_secret # "" THEN api_secret ELSE env.secret
    IN  IF key = "" \/ secret = ""
        THEN Raise("ValueError", "API credentials are missing")
        ELSE Ret([api_key |-> key, api_secret |-> secret, base_url |-> BASE_URL])

\* quote_plus of a value: a space is sent as "+"
QuotePlus(s) == [i \in DOMAIN s |-> IF s[i] = " " THEN "+" ELSE s[i]]

\* urlencode(params): the pairs in the mapping's order, each value as str
urlencode(params) ==
    [i \in DOMAIN params |-> <<params[i][1], QuotePlus(ValueStr(params[i][2]))>>]

\* hmac.new(secret, query, sha256).hexdigest(): the digest is a symbol that
\* names its key and its message, so distinct inputs give distinct digests
HmacSha256Hex(secret, query) == <<"hmac-sha256", secret, query>>

_sign(api_secret, params, now) ==
    LET p1 == DictSet(params, "recvWindow", IntV(RecvWindow))
        p2 == DictSet(p1, "timestamp", IntV(now))
        query == urlencode(p2)
        signature == HmacSha256Hex(api_secret, query)
    IN  DictSet(p2, "signature", StrV(signature))

\* the exception handlers around session.request, in the order written
TransportError(exc, url) ==
    IF IsInstance(exc, {"requests.ConnectionError"})
    THEN Raise("ConnectionError", <<"Cannot reach", url>>)
    ELSE IF IsInstance(exc, {"requests.Timeout"})
    THEN Raise("TimeoutError", <<"timed out", url>>)
    ELSE Raise(exc, <<>>)

\* resp.json(): the decoded body, or JSONDecodeError when it is not JSON
ResponseJson(resp) ==
    IF resp.jtype = "none" THEN Raise("JSONDecodeError", resp.text)
    ELSE Ret([jtype |-> resp.jtype, fields |-> resp.fields])

\* value.get(k, default): only a decoded JSON object (a dict) has .get
JsonGet(value, k, default) ==
    IF value.jtype = "object" THEN Ret(DictGet(value.fields, k, default))
    ELSE Raise("AttributeError", "object has no attribute 'get'")

ApiError(status, code, message) ==
    [kind |-> "raise", exc |-> "BinanceAPIError", msg |-> message,
     value |-> [status_code |-> status, code |-> code, message |-> message]]

\* the status >= 400 branch: body.get raises inside try/except ValueError
ErrorResponse(resp) ==
    LET body == ResponseJson(resp) IN
    IF body.kind = "raise"
    THEN IF IsInstance(body.exc, {"ValueError"})
         THEN ApiError(resp.status, IntV(resp.status), StrV(resp.text))
         ELSE body
    ELSE LET api_code == JsonGet(body.value, "code", IntV(resp.status))
             api_msg == JsonGet(body.value, "msg", StrV(resp.text))
         IN  IF api_code.kind = "raise"
             THEN IF IsInstance(api_code.exc, {"ValueError"})
                  THEN ApiError(resp.status, IntV(resp.status), StrV(resp.text))
                  ELSE api_code
             ELSE ApiError(resp.status, api_code.value, api_msg.value)

\* _request returning the raw text of a success body that is not JSON
HandleResponseLenient(resp) ==
    IF resp.status >= ErrorStatus THEN ErrorResponse(resp)
    ELSE IF resp.jtype = "none" THEN Ret([jtype |-> "string", fields |-> <<>>])
    ELSE ResponseJson(resp)

HandleResponse(resp) ==
    IF resp.status >= ErrorStatus THEN ErrorResponse(resp) ELSE ResponseJson(resp)

\* The mapping objects of a _request call: "caller" is the object the caller
\* passed, "local" the one the call creates, and ref names the object the
\* local name params is bound to.

\* _request working on the caller's object: params = params or {}
AliasedParams(params) == [caller |-> params, local |-> <<>>, ref |-> "caller"]

\* params = dict(params or {}): the name is rebound to a new object that
\* holds the caller's pairs
CopiedParams(params) == [caller |-> params, local |-> params, ref |-> "local"]

\* self._sign(params): _sign assigns into the object it is given
SignInPlace(objs, api_secret, now) ==
    [objs EXCEPT ![objs.ref] = _sign(api_secret, objs[objs.ref], now)]

\* BinanceClient._request: params is the caller's mapping, net what the HTTP
\* session does with the request (an exception of requests, or a response).
\* Gives the mapping transmitted, the caller's mapping after the call and
\* the call's outcome.
_request(self, method, path, params, signed, now, net) ==
    LET url == self.base_url \o <<path>>
        copied == CopiedParams(params)
        objs == IF signed THEN SignInPlace(copied, self.api_secret, now) ELSE copied
    IN  [sent |-> [method |-> method, url |-> url, params |-> objs[objs.ref],
                   timeout |-> RequestTimeout],
         callerParams |-> objs.caller,
         out |-> IF net.kind = "raise" THEN TransportError(net.exc, url)
                 ELSE HandleResponse(net)]

-----------------------------------------------------------------------------
(* bot/orders.py *)

ORDER_PATH == "/fapi/v1/order"

TIF_REQUIRED_TYPES == {S_LIMIT, S_STOP, S_TAKE_PROFIT}

\* f"{d:f}": fixed-point text of a Decimal
_fmt(d) ==
    CASE d.d = "fin" -> IntToStr(d.v)
      [] d.d = "Inf" -> IF d.v < 0 THEN <<"-Infinity">> ELSE <<"Infinity">>
      [] OTHER -> <<"NaN">>

\* the parameter mapping place_order builds
OrderParams(symbol, side, order_type, quantity, price, stop_price, time_in_force) ==
    LET p0 == << <<"symbol", StrV(symbol)>>, <<"side", StrV(side)>>,
                 <<"type", StrV(order_type)>>,
                 <<"quantity", StrV(_fmt(quantity))>> >>
        p1 == IF price # None THEN DictSet(p0, "price", StrV(_fmt(price))) ELSE p0
        p2 == IF stop_price # None
              THEN DictSet(p1, "stopPrice", StrV(_fmt(stop_price))) ELSE p1
    IN  IF order_type \in TIF_REQUIRED_TYPES
        THEN DictSet(p2, "timeInForce", StrV(time_in_force)) ELSE p2

\* place_order: post the mapping, then read the response with .get
place_order(self, symbol, side, order_type, quantity, price, stop_price, now, net) ==
    LET r == _request(self, "POST", ORDER_PATH,
                      OrderParams(symbol, side, order_type, quantity, price,
                                  stop_price, S_GTC),
                      TRUE, now, net)
        logged == IF r.out.kind = "return"
                  THEN JsonGet(r.out.value, "orderId", None) ELSE r.out
    IN  [r EXCEPT !.out = IF logged.kind = "raise" THEN logged ELSE r.out]

-----------------------------------------------------------------------------
(* what the HTTP session and the user can do *)

NetRaise(e) ==
    [kind |-> "raise", exc |-> e, status |-> 0, text |-> <<>>,
     jtype |-> "none", fields |-> <<>>]

Response(status, text, jtype, fields) ==
    [kind |-> "response", exc |-> "", status |-> status, text |-> text,
     jtype |-> jtype, fields |-> fields]

\* response bodies: text that is not JSON, JSON objects with and without
\* code / msg, and JSON that is not an object
Bodies ==
    { [text |-> <<"plain text error">>, jtype |-> "none", fields |-> <<>>],
      [text |-> <<"{code:-1121,msg:Invalid symbol.}">>, jtype |-> "object",
       fields |-> << <<"code", IntV(-1121)>>, <<"msg", StrV(<<"Invalid symbol.">>)>> >>],
      [text |-> <<"{msg:Bad request}">>, jtype |-> "object",
       fields |-> << <<"msg", StrV(<<"Bad request">>)>> >>],
      [text |-> <<"{code:-2015}">>, jtype |-> "object",
       fields |-> << <<"code", IntV(-2015)>> >>],
      [text |-> <<"{orderId:7,symbol:BTCUSDT,price:1,assets:[]}">>, jtype |-> "object",
       fields |-> << <<"orderId", IntV(7)>>, <<"symbol", StrV(<<"BTCUSDT">>)>>,
                     <<"price", StrV(<<"1">>)>>, <<"assets", StrV(<<>>)>> >>],
      [text |-> <<"[]">>, jtype |-> "array", fields |-> <<>>],
      [text |-> <<"\"maintenance\"">>, jtype |-> "string", fields |-> <<>>] }

Statuses == {200, 399, 400, 503}

NetOutcomes ==
    {NetRaise(e) : e \in {"requests.ConnectionError", "requests.ConnectTimeout",
                          "requests.ReadTimeout"}}
    \cup {Response(st, b.text, b.jtype, b.fields) : st \in Statuses, b \in Bodies}

Clock == 1..MaxClock

Num(n) == [t |-> "num", v |-> n]

RawNumbers == {Num(0), Num(2)}

\* what click's float type yields: float("nan") is a float
RawFloats == RawNumbers \cup {[t |-> "nan", v |-> 0]}

\* any value a caller of the validators can pass
RawAny == RawFloats \cup {[t |-> "text", v |-> 0]}

RawSymbols ==
    { <<" ","b","t","c","u","s","d","t"," ">>,
      <<"b","t","c">>,
      <<"B","T","C","1","U","S","D">> }

\* click.Choice(..., case_sensitive=False)
ChoiceSides == {S_BUY, <<"s","e","l","l">>}

ChoiceTypes ==
    VALID_ORDER_TYPES \cup {<<"s","t","o","p","_","m","a","r","k","e","t">>}

RawSides == ChoiceSides \cup {<<"h","o","l","d">>}

RawTypes == ChoiceTypes \cup {<<"F","O","O">>}

Creds == {"", "set"}

-----------------------------------------------------------------------------
(* cli.py *)

NoArgs ==
    [symbol |-> <<>>, side |-> <<>>, order_type |-> <<>>, quantity |-> None,
     price |-> None, stop_price |-> None]

NoLoc ==
    [symbol |-> <<>>, side |-> <<>>, order_type |-> <<>>, qty |-> None,
     validated_price |-> None, validated_stop |-> None]

NoTx == [method |-> "", url |-> <<>>, params |-> <<>>, timeout |-> 0]

NoCall ==
    [via |-> "", method |-> "", path |-> "", params |-> <<>>, signed |-> FALSE,
     now |-> 0, net |-> NetRaise("")]

NoResult == [sent |-> NoTx, callerParams |-> <<>>, out |-> Ret(None)]

Said(cat, exc, msg) == [cat |-> cat, exc |-> exc, msg |-> msg]

Silent == Said("", "", "")

Init ==
    /\ env \in [key : Creds, secret : Creds]
    /\ pc = "start"
    /\ flow = "none"
    /\ interactive = FALSE
    /\ iter = 0
    /\ choice = 0
    /\ args = NoArgs
    /\ loc = NoLoc
    /\ nvalid = 0
    /\ client = None
    /\ sessions = 0
    /\ httpCount = 0
    /\ lastTx = NoTx
    /\ report = Silent
    /\ uncaught = ""
    /\ call = NoCall
    /\ result = NoResult

\* the running command returns to its caller having printed rep: the menu
\* loop goes round, a subcommand ends the process normally
Return(rep) ==
    /\ report' = rep
    /\ uncaught' = uncaught
    /\ IF interactive
       THEN pc' = "menu" /\ iter' = iter + 1
       ELSE pc' = "done" /\ iter' = iter

\* an exception no handler caught leaves the process with a traceback
Propagate(exc) ==
    /\ pc' = "crashed"
    /\ uncaught' = exc
    /\ UNCHANGED <<report, iter>>

\* the first try block of _execute_order without the "return" of its handler
ValidationStepNoReturn(r, field, next) ==
    /\ IF r.kind = "return"
       THEN /\ loc' = [loc EXCEPT ![field] = r.value]
            /\ nvalid' = nvalid + 1
            /\ pc' = next
            /\ UNCHANGED <<report, uncaught, iter>>
       ELSE /\ UNCHANGED <<loc, nvalid>>
            /\ IF IsInstance(r.exc, {"ValueError"})
               THEN /\ report' = Said("Validation error", r.exc, r.msg)
                    /\ pc' = next
                    /\ UNCHANGED <<uncaught, iter>>
               ELSE Propagate(r.exc)
    /\ UNCHANGED <<env, flow, interactive, choice, args, client, sessions,
                   httpCount, lastTx, call, result>>

\* a step of the first try block of _execute_order: the validator's outcome
\* r either is stored (and the next validator runs) or is handled by
\* "except ValueError", or escapes
ValidationStep(r, field, next) ==
    /\ IF r.kind = "return"
       THEN /\ loc' = [loc EXCEPT ![field] = r.value]
            /\ nvalid' = nvalid + 1
            /\ pc' = next
            /\ UNCHANGED <<report, uncaught, iter>>
       ELSE /\ UNCHANGED <<loc, nvalid>>
            /\ IF IsInstance(r.exc, {"ValueError"})
               THEN Return(Said("Validation error", r.exc, r.msg))
               ELSE Propagate(r.exc)
    /\ UNCHANGED <<env, flow, interactive, choice, args, client, sessions,
                   httpCount, lastTx, call, result>>

ValidateSymbol ==
    /\ pc = "v_symbol"
    /\ ValidationStep(validate_symbol(args.symbol), "symbol", "v_side")

ValidateSide ==
    /\ pc = "v_side"
    /\ ValidationStep(validate_side(args.side), "side", "v_type")

ValidateOrderType ==
    /\ pc = "v_type"
    /\ ValidationStep(validate_order_type(args.order_type), "order_type", "v_quantity")

ValidateQuantity ==
    /\ pc = "v_quantity"
    /\ ValidationStep(validate_quantity(args.quantity), "qty", "v_price")

ValidatePrice ==
    /\ pc = "v_price"
    /\ ValidationStep(validate_price(args.price, loc.order_type),
                      "validated_price", "v_stop")

ValidateStopPrice ==
    /\ pc = "v_stop"
    /\ ValidationStep(validate_stop_price(args.stop_price, loc.order_type),
                      "validated_stop", "client")

\* the except clauses of the second try block of _execute_order
OrderHandler(exc) ==
    IF IsInstance(exc, {"BinanceAPIError"}) THEN "Binance API error"
    ELSE IF IsInstance(exc, {"ConnectionError", "TimeoutError"}) THEN "Network error"
    ELSE "Unexpected error"

\* "except Exception" of the price and account commands: _error(str(exc))
PlainHandler(exc) == "error"

Handler(exc) == IF flow = "order" THEN OrderHandler(exc) ELSE PlainHandler(exc)

\* client = BinanceClient(), inside the try block of each command
ConstructClient ==
    /\ pc = "client"
    /\ LET r == BinanceClientInit("", "") IN
       IF r.kind = "return"
       THEN /\ client' = r.value
            /\ sessions' = sessions + 1
            /\ pc' = IF flow = "order" THEN "place" ELSE "fetch"
            /\ UNCHANGED <<report, uncaught, iter>>
       ELSE /\ UNCHANGED <<client, sessions>>
            /\ Return(Said(Handler(r.exc), r.exc, r.msg))
    /\ UNCHANGED <<env, flow, interactive, choice, args, loc, nvalid, httpCount,
                   lastTx, call, result>>

\* a command's gateway call has been made: r is what _request gave
AfterRequest(r, rep) ==
    /\ httpCount' = httpCount + 1
    /\ lastTx' = r.sent
    /\ Return(rep)
    /\ UNCHANGED <<env, flow, interactive, choice, args, loc, nvalid, client,
                   sessions, call, result>>

\* resp = place_order(...); format_order_response(resp); _success(...)
PlaceOrder ==
    /\ pc = "place"
    /\ flow = "order"
    /\ \E now \in Clock, net \in NetOutcomes :
        LET r == place_order(client, loc.symbol, loc.side, loc.order_type, loc.qty,
                             loc.validated_price, loc.validated_stop, now, net)
        IN  AfterRequest(r, IF r.out.kind = "return"
                            THEN Said("Order placed successfully", "", "")
                            ELSE Said(OrderHandler(r.out.exc), r.out.exc, r.out.msg))

\* the price command after its client exists: validate_symbol, then
\* client.ticker_price (an unsigned GET), then data['symbol'], data['price']
PriceFetch ==
    /\ pc = "fetch"
    /\ flow = "price"
    /\ LET s == validate_symbol(args.symbol) IN
       IF s.kind = "raise"
       THEN /\ Return(Said(PlainHandler(s.exc), s.exc, s.msg))
            /\ UNCHANGED <<env, flow, interactive, choice, args, loc, nvalid,
                           client, sessions, httpCount, lastTx, call, result>>
       ELSE \E now \in Clock, net \in NetOutcomes :
            LET r == _request(client, "GET", "/fapi/v1/ticker/price",
                              << <<"symbol", StrV(s.value)>> >>, FALSE, now, net)
                ok == /\ r.out.kind = "return"
                      /\ r.out.value.jtype = "object"
                      /\ {"symbol", "price"} \subseteq DictKeys(r.out.value.fields)
            IN  AfterRequest(r,
                    IF ok THEN Said("price", "", "")
                    ELSE IF r.out.kind = "raise"
                    THEN Said(PlainHandler(r.out.exc), r.out.exc, r.out.msg)
                    ELSE Said(PlainHandler("KeyError"), "KeyError", ""))

\* the account command after its client exists: client.account_info (a
\* signed GET without parameters), then info.get("assets", [])
AccountFetch ==
    /\ pc = "fetch"
    /\ flow = "account"
    /\ \E now \in Clock, net \in NetOutcomes :
        LET r == _request(client, "GET", "/fapi/v2/account", <<>>, TRUE, now, net)
            assets == IF r.out.kind = "return"
                      THEN JsonGet(r.out.value, "assets", StrV(<<>>)) ELSE r.out
        IN  AfterRequest(r,
                IF assets.kind = "return" THEN Said("balances", "", "")
                ELSE Said(PlainHandler(assets.exc), assets.exc, assets.msg))

\* a command starts: its arguments are bound and its locals are fresh
Begin(f, a, at) ==
    /\ flow' = f
    /\ args' = a
    /\ loc' = NoLoc
    /\ nvalid' = 0
    /\ client' = None
    /\ pc' = at
    /\ report' = Silent
    /\ lastTx' = NoTx
    /\ UNCHANGED <<env, iter, sessions, httpCount, uncaught, call, result>>

\* the arguments click hands to the order subcommand
OrderArgs ==
    [symbol : RawSymbols, side : ChoiceSides, order_type : ChoiceTypes,
     quantity : RawFloats, price : RawFloats \cup {None},
     stop_price : RawFloats \cup {None}]

\* any arguments _execute_order can be called with
AnyArgs ==
    [symbol : RawSymbols, side : RawSides, order_type : RawTypes,
     quantity : RawAny, price : RawAny \cup {None},
     stop_price : RawAny \cup {None}]

\* the order subcommand: _execute_order(symbol, side, order_type, ...)
order ==
    /\ pc = "start"
    /\ \E a \in OrderArgs : Begin("order", a, "v_symbol")
    /\ UNCHANGED <<interactive, choice>>

\* _execute_order called by any other caller
_execute_order ==
    /\ pc = "start"
    /\ \E a \in AnyArgs : Begin("order", a, "v_symbol")
    /\ UNCHANGED <<interactive, choice>>

\* the price subcommand
price ==
    /\ pc = "start"
    /\ \E s \in RawSymbols : Begin("price", [NoArgs EXCEPT !.symbol = s], "client")
    /\ UNCHANGED <<interactive, choice>>

\* the account subcommand
account ==
    /\ pc = "start"
    /\ Begin("account", NoArgs, "client")
    /\ UNCHANGED <<interactive, choice>>

\* cli() without a subcommand
cli ==
    /\ pc = "start"
    /\ interactive' = TRUE
    /\ pc' = "menu"
    /\ UNCHANGED <<env, flow, iter, choice, args, loc, nvalid, client, sessions,
                   httpCount, lastTx, report, uncaught, call, result>>

\* one round of the while loop of interactive_menu up to its dispatch
interactive_menu ==
    /\ pc = "menu"
    /\ \E c \in 1..5 :
        /\ c # 4 => iter < MaxIter
        /\ choice' = c
        /\ flow' = IF c = 3 THEN "account" ELSE "none"
        /\ CASE c = 1 -> pc' = "prompt_order" /\ report' = Silent /\ iter' = iter
             [] c = 2 -> pc' = "prompt_price" /\ report' = Silent /\ iter' = iter
             [] c = 3 -> pc' = "client" /\ report' = Silent /\ iter' = iter
             [] c = 4 -> pc' = "exited" /\ report' = Said("Goodbye!", "", "") /\ iter' = iter
             [] OTHER -> /\ pc' = "menu"
                         /\ report' = Said("Invalid choice", "", "")
                         /\ iter' = iter + 1
    /\ args' = NoArgs
    /\ loc' = NoLoc
    /\ nvalid' = 0
    /\ client' = None
    /\ lastTx' = NoTx
    /\ UNCHANGED <<env, interactive, sessions, httpCount, uncaught, call, result>>

\* the arguments the prompts of _interactive_order collect: price and stop
\* price are asked for only when the order type, uppercased, needs them
PromptArgs ==
    {a \in OrderArgs :
        /\ (a.price # None) <=> (StrUpper(a.order_type) \in PRICE_REQUIRED_TYPES)
        /\ (a.stop_price # None) <=> (StrUpper(a.order_type) \in STOP_REQUIRED_TYPES)}

_interactive_order ==
    /\ pc = "prompt_order"
    /\ \E a \in PromptArgs, confirm \in BOOLEAN :
        IF confirm
        THEN /\ Begin("order", a, "v_symbol")
             /\ UNCHANGED <<interactive, choice>>
        ELSE /\ Return(Said("Order cancelled.", "", ""))
             /\ UNCHANGED <<env, flow, interactive, choice, args, loc, nvalid,
                            client, sessions, httpCount, lastTx, call, result>>

_interactive_price ==
    /\ pc = "prompt_price"
    /\ \E s \in RawSymbols : Begin("price", [NoArgs EXCEPT !.symbol = s], "client")
    /\ UNCHANGED <<interactive, choice>>

Next ==
    \/ order
    \/ _execute_order
    \/ price
    \/ account
    \/ cli
    \/ interactive_menu
    \/ _interactive_order
    \/ _interactive_price
    \/ ValidateSymbol
    \/ ValidateSide
    \/ ValidateOrderType
    \/ ValidateQuantity
    \/ ValidatePrice
    \/ ValidateStopPrice
    \/ ConstructClient
    \/ PlaceOrder
    \/ PriceFetch
    \/ AccountFetch

Spec == Init /\ [][Next]_vars

-----------------------------------------------------------------------------
(* the gateway on its own: one call of a public method of BinanceClient,    *)
(* with any parameter mapping (drawn in InitRequest, for the methods that   *)
(* take one) and against any behaviour of the HTTP session                  *)

V_BTCUSDT == StrV(<<"B","T","C","U","S","D","T">>)

\* the mappings a caller passes, among them mappings that already hold the
\* keys the signer writes
CallerMappings ==
    { <<>>,
      << <<"symbol", V_BTCUSDT>> >>,
      << <<"symbol", V_BTCUSDT>>, <<"side", StrV(S_BUY)>> >>,
      << <<"side", StrV(S_BUY)>>, <<"symbol", V_BTCUSDT>> >>,
      << <<"symbol", StrV(<<"A"," ","B">>)>> >>,
      << <<"timestamp", IntV(0)>>, <<"symbol", V_BTCUSDT>> >>,
      << <<"signature", StrV(<<"stale">>)>>, <<"symbol", V_BTCUSDT>> >> }

InitRequest ==
    /\ env = [key |-> "set", secret |-> "set"]
    /\ pc = "gateway"
    /\ flow = "none"
    /\ interactive = FALSE
    /\ iter = 0
    /\ choice = 0
    /\ args = NoArgs
    /\ loc = NoLoc
    /\ nvalid = 0
    /\ client = BinanceClientInit("", "").value
    /\ sessions = 1
    /\ httpCount = 0
    /\ lastTx = NoTx
    /\ report = Silent
    /\ uncaught = ""
    /\ call \in {[NoCall EXCEPT !.params = p, !.signed = sg] :
                    p \in CallerMappings, sg \in BOOLEAN}
    /\ result = NoResult

\* one call of a client method that goes through _request; after(out) is
\* what the method does with _request's outcome before it returns
GatewayCall(via, method, path, params, signed, now, net, out) ==
    /\ pc = "gateway"
    /\ call' = [via |-> via, method |-> method, path |-> path, params |-> params,
                signed |-> signed, now |-> now, net |-> net]
    /\ result' = [_request(client, method, path, params, signed, now, net)
                    EXCEPT !.out = out]
    /\ lastTx' = result'.sent
    /\ httpCount' = httpCount + 1
    /\ pc' = "returned"
    /\ UNCHANGED <<env, flow, interactive, iter, choice, args, loc, nvalid,
                   client, sessions, report, uncaught>>

Paths == {ORDER_PATH}

get ==
    \E path \in Paths, now \in Clock, net \in NetOutcomes :
        GatewayCall("get", "GET", path, call.params, call.signed, now, net,
            _request(client, "GET", path, call.params, call.signed, now, net).out)

post ==
    \E path \in Paths, now \in Clock, net \in NetOutcomes :
        GatewayCall("post", "POST", path, call.params, call.signed, now, net,
            _request(client, "POST", path, call.params, call.signed, now, net).out)

delete ==
    \E path \in Paths, now \in Clock, net \in NetOutcomes :
        GatewayCall("delete", "DELETE", path, call.params, call.signed, now, net,
            _request(client, "DELETE", path, call.params, call.signed, now, net).out)

\* data["serverTime"] of a decoded response
Subscript(out, k) ==
    IF out.kind = "raise" THEN out
    ELSE IF out.value.jtype # "object" THEN Raise("TypeError", "not subscriptable")
    ELSE IF ~DictHas(out.value.fields, k) THEN Raise("KeyError", k)
    ELSE Ret(DictGet(out.value.fields, k, None))

server_time ==
    \E now \in Clock, net \in NetOutcomes :
        GatewayCall("server_time", "GET", "/fapi/v1/time", <<>>, FALSE, now, net,
            Subscript(_request(client, "GET", "/fapi/v1/time", <<>>, FALSE, now, net).out,
                      "serverTime"))

\* exchange_info(symbol): the symbol filter is sent only when one is given
exchange_info ==
    \E symbol \in {<<>>, <<"B","T","C","U","S","D","T">>},
       now \in Clock, net \in NetOutcomes :
        LET params == IF symbol # <<>> THEN << <<"symbol", StrV(symbol)>> >> ELSE <<>>
        IN  GatewayCall("exchange_info", "GET", "/fapi/v1/exchangeInfo", params,
                FALSE, now, net,
                _request(client, "GET", "/fapi/v1/exchangeInfo", params, FALSE,
                         now, net).out)

account_info ==
    \E now \in Clock, net \in NetOutcomes :
        GatewayCall("account_info", "GET", "/fapi/v2/account", <<>>, TRUE, now, net,
            _request(client, "GET", "/fapi/v2/account", <<>>, TRUE, now, net).out)

ticker_price ==
    \E symbol \in {<<"B","T","C","U","S","D","T">>}, now \in Clock, net \in NetOutcomes :
        LET params == << <<"symbol", StrV(symbol)>> >>
        IN  GatewayCall("ticker_price", "GET", "/fapi/v1/ticker/price", params,
                FALSE, now, net,
                _request(client, "GET", "/fapi/v1/ticker/price", params, FALSE,
                         now, net).out)

NextRequest ==
    \/ get
    \/ post
    \/ delete
    \/ server_time
    \/ exchange_info
    \/ account_info
    \/ ticker_price

SpecRequest == InitRequest /\ [][NextRequest]_vars

-----------------------------------------------------------------------------
(* The claims *)

Finished == {"done", "menu", "crashed"}

\* the order type as validate_order_type normalises it
NormalType(a) == StrUpper(StrStrip(a.order_type))

\* C1: every order request handed to the gateway holds price iff its type is
\* LIMIT, STOP or TAKE_PROFIT, and stopPrice iff its type is STOP,
\* STOP_MARKET, TAKE_PROFIT or TAKE_PROFIT_MARKET.
C1_PriceFieldsFollowOrderType ==
    (flow = "order" /\ lastTx # NoTx) =>
        LET params == lastTx.params
            type == DictGet(params, "type", StrV(<<>>)).s
        IN  /\ DictHas(params, "price") <=> type \in PRICE_REQUIRED_TYPES
            /\ DictHas(params, "stopPrice") <=> type \in STOP_REQUIRED_TYPES

\* C2: in _execute_order a client is constructed and the order POST issued
\* only after all six validators have returned, and a run whose validation
\* fails constructs no client and issues no request.
C2_ValidationBeforeNetwork ==
    /\ [](flow = "order" /\ nvalid < 6 =>
            /\ client = None
            /\ lastTx = NoTx
            /\ pc \notin {"client", "place"})
    /\ [][(flow' = "order" /\ (sessions' > sessions \/ httpCount' > httpCount))
            => nvalid = 6 /\ nvalid' = 6]_vars
    /\ [][(flow = "order" /\ httpCount' > httpCount)
            => sessions > 0 /\ lastTx'.method = "POST"]_vars
    /\ [][(flow' = "order" /\ report'.cat = "Validation error")
            => /\ UNCHANGED <<sessions, httpCount, client, lastTx>>
               /\ nvalid' < 6
               /\ pc' \in Finished]_vars

\* a validation failure at the last validator, with credentials present
C2_Witness ==
    /\ flow = "order"
    /\ env = [key |-> "set", secret |-> "set"]
    /\ report.cat = "Validation error"
    /\ nvalid = 5
    /\ sessions = 0
    /\ httpCount = 0

\* C3: a response with status >= 400 always makes _request raise
\* BinanceAPIError with the HTTP status, code = the body's code when the body
\* is JSON that has one and the HTTP status otherwise, message = the body's
\* msg when present and the raw text otherwise.
C3_ErrorStatusRaisesApiError ==
    (/\ pc = "returned"
     /\ call.via \in {"get", "post", "delete"}
     /\ call.net.kind = "response"
     /\ call.net.status >= ErrorStatus) =>
        LET body == call.net.fields
            code == IF DictHas(body, "code") THEN DictGet(body, "code", None)
                    ELSE IntV(call.net.status)
            message == IF DictHas(body, "msg") THEN DictGet(body, "msg", None)
                       ELSE StrV(call.net.text)
        IN  /\ result.out.kind = "raise"
            /\ result.out.exc = "BinanceAPIError"
            /\ result.out.value = [status_code |-> call.net.status, code |-> code,
                                   message |-> message]

\* C4: a refused connection makes _request raise ConnectionError carrying
\* the URL, every timeout (connect or read) makes it raise TimeoutError, and
\* neither is a BinanceAPIError.
C4_TransportErrorsClassified ==
    (/\ pc = "returned"
     /\ call.via \in {"get", "post", "delete"}
     /\ call.net.kind = "raise") =>
        /\ result.out.kind = "raise"
        /\ result.out.exc # "BinanceAPIError"
        /\ call.net.exc = "requests.ConnectionError" =>
            /\ result.out.exc = "ConnectionError"
            /\ result.out.msg = <<"Cannot reach", result.sent.url>>
        /\ call.net.exc \in {"requests.ConnectTimeout", "requests.ReadTimeout"} =>
            result.out.exc = "TimeoutError"

\* C5: with the API key or the API secret absent no session is created and
\* no HTTP request is issued by any command, in CLI and interactive mode, and
\* every command that reaches the construction of its client reports the
\* missing-credentials error.
C5_NoCredentialsNoNetwork ==
    (env.key = "" \/ env.secret = "") =>
        /\ sessions = 0
        /\ httpCount = 0
        /\ client = None
        /\ lastTx = NoTx
        /\ pc \notin {"place", "fetch"}
        /\ (/\ pc \in {"done", "menu"}
            /\ flow \in {"price", "account"} \/ (flow = "order" /\ nvalid = 6))
            => /\ report.exc = "ValueError"
               /\ report.msg = "API credentials are missing"

\* the secret alone is absent and a confirmed interactive order got as far as
\* constructing its client
C5_Witness ==
    /\ env = [key |-> "set", secret |-> ""]
    /\ interactive
    /\ pc = "menu"
    /\ flow = "order"
    /\ nvalid = 6
    /\ report.msg = "API credentials are missing"
    /\ httpCount = 0

\* C6: in interactive mode no error ends the process: the menu loop goes on
\* after every menu action and ends only by the selection of Exit (4).
C6_MenuSurvivesEveryError ==
    interactive =>
        /\ pc # "crashed"
        /\ uncaught = ""
        /\ pc = "exited" => choice = 4

\* a Decimal that is a number > 0 (Infinity counted as one)
Positive(d) == (d.d = "fin" /\ d.v > 0) \/ (d.d = "Inf" /\ d.v > 0)

\* C7: the numeric validators either return a Decimal > 0 or fail with
\* ValueError, reported by _execute_order as a validation error; no input
\* gives another error kind or a returned value that is not a positive number.
C7_NumericValidatorsTwoOutcomes ==
    flow = "order" =>
        /\ uncaught = ""
        /\ nvalid >= 4 => Positive(loc.qty)
        /\ nvalid >= 5 =>
            loc.validated_price = None \/ Positive(loc.validated_price)
        /\ nvalid >= 6 =>
            loc.validated_stop = None \/ Positive(loc.validated_stop)
        /\ (pc \in Finished /\ nvalid \in 3..5) => report.cat = "Validation error"

\* C8 as stated: an order whose type (in any letter case) needs a stop price
\* and has none ends with the "stop price required" validation error,
\* whatever its other fields.
C8_StopPriceRequiredWhateverElse ==
    (/\ flow = "order"
     /\ pc \in Finished
     /\ NormalType(args) \in STOP_REQUIRED_TYPES
     /\ args.stop_price = None) =>
        report = Said("Validation error", "ValueError", "Stop price is required")

\* C8 amended: such an order is never sent, and _execute_order reports
\* the "stop price required" validation error exactly when the five
\* validators that run before validate_stop_price have all returned;
\* otherwise the run ends at the first of them that fails.
C8_StopPriceRequiredWhenReached ==
    (/\ flow = "order"
     /\ NormalType(args) \in STOP_REQUIRED_TYPES
     /\ args.stop_price = None) =>
        /\ nvalid < 6
        /\ client = None
        /\ lastTx = NoTx
        /\ pc \in Finished =>
            (nvalid = 5 <=>
                report = Said("Validation error", "ValueError",
                              "Stop price is required"))

\* a lower-case stop_market order without stop price, its other fields valid
C8_Witness ==
    /\ flow = "order"
    /\ pc = "done"
    /\ args.order_type = <<"s","t","o","p","_","m","a","r","k","e","t">>
    /\ args.stop_price = None
    /\ nvalid = 5
    /\ report.msg = "Stop price is required"

\* C9: a response with status < 400 makes _request return the decoded JSON
\* body; when the body is not JSON nothing is returned: the call raises an
\* error that is none of BinanceAPIError, ConnectionError and TimeoutError,
\* which _execute_order reports as an unexpected error.
C9_SuccessReturnsDecodedJson ==
    (/\ pc = "returned"
     /\ call.via \in {"get", "post", "delete"}
     /\ call.net.kind = "response"
     /\ call.net.status < ErrorStatus) =>
        IF call.net.jtype # "none"
        THEN result.out = Ret([jtype |-> call.net.jtype, fields |-> call.net.fields])
        ELSE /\ result.out.kind = "raise"
             /\ ~IsInstance(result.out.exc,
                            {"BinanceAPIError", "ConnectionError", "TimeoutError"})
             /\ OrderHandler(result.out.exc) = "Unexpected error"

\* a 200 response whose body is not JSON
C9_Witness ==
    /\ pc = "returned"
    /\ call.via = "post"
    /\ call.net.kind = "response"
    /\ call.net.status = 200
    /\ call.net.jtype = "none"
    /\ result.out.kind = "raise"
    /\ result.out.exc = "JSONDecodeError"

\* C10: a signed call transmits the caller's pairs in their order, then
\* recvWindow = 5000, then the call's timestamp, then signature last, the
\* signature being the HMAC of the query encoding of all the other pairs
\* transmitted, none of which is a signature.
C10_SignatureAppendedLast ==
    (pc = "returned" /\ call.signed) =>
        LET tx == result.sent.params
            n == Len(call.params)
        IN  /\ Len(tx) = n + 3
            /\ SubSeq(tx, 1, n) = call.params
            /\ tx[n + 1] = <<"recvWindow", IntV(RecvWindow)>>
            /\ tx[n + 2] = <<"timestamp", IntV(call.now)>>
            /\ tx[n + 3] = <<"signature",
                             StrV(HmacSha256Hex(client.api_secret,
                                                urlencode(SubSeq(tx, 1, n + 2))))>>
            /\ ~DictHas(SubSeq(tx, 1, n + 2), "signature")

\* C11: a gateway call leaves the caller's parameter mapping as it was,
\* signed or unsigned and whatever the call's outcome, and an unsigned call
\* transmits exactly the caller's pairs.
C11_CallerParamsUntouched ==
    pc = "returned" =>
        /\ result.callerParams = call.params
        /\ ~call.signed => result.sent.params = call.params

\* a signed call with parameters that the exchange rejects: the signer's
\* three fields were transmitted and the caller's mapping holds none of them
C11_Witness ==
    /\ pc = "returned"
    /\ call.signed
    /\ call.params = << <<"symbol", V_BTCUSDT>> >>
    /\ result.out.exc = "BinanceAPIError"
    /\ Len(result.sent.params) = Len(call.params) + 3
    /\ result.callerParams = call.params

====
